---------------------------- MODULE Spec2Model ----------------------------
(***************************************************************************)
(* A model of ratpack's routing and dispatch engine: the path compiler and *)
(* matcher (src/src/path.rs), the route table (src/src/router.rs), the     *)
(* handler chain (src/src/handler.rs, src/src/macros.rs) and the           *)
(* application shell with its shared state cell (src/src/app.rs).          *)
(*                                                                         *)
(* Strings are sequences of one-character strings, so that trimming,       *)
(* splitting and prefix tests are computed the way the code computes them. *)
(* Option<T> is a sequence of length 0 (None) or 1 (Some).                 *)
(***************************************************************************)
EXTENDS Naturals, Sequences, FiniteSets

VARIABLES
    \* ---- the path laboratory (PathSpec) ----
    pattern,      \* the pattern string handed to Path::new
    path,         \* the compiled Path
    provided,     \* the candidate string of the last matches/extract call
    op,           \* the last Path operation applied: "new", "matches", "extract"
    matched,      \* result of the last Path::matches
    extracted,    \* result of the last Path::extract
    canonical,    \* result of the last Path::to_string
    recompiled,   \* Path::new of the canonical string
    listed,       \* result of the last Path::params
    \* ---- the application (Spec) ----
    serving,      \* FALSE while routes are registered, TRUE once the App serves
    router,       \* App.router: the route table, a sequence of Route
    global_state, \* App.global_state: Option<Arc<Mutex<S>>>, S an integer;
                  \* the cell holds its value and the dispatch holding its lock
    disp          \* one record per dispatch (per call of App::dispatch)

pathVars == <<pattern, path, provided, op, matched, extracted,
              canonical, recompiled, listed>>
appVars == <<serving, router, global_state, disp>>
vars == <<pattern, path, provided, op, matched, extracted,
          canonical, recompiled, listed,
          serving, router, global_state, disp>>

---------------------------------------------------------------------------
(* Bounds of the model *)

\* longest generated pattern / candidate, in tokens ("/", a literal, ":x")
MaxTokens == 4
\* most routes registered before serving
MaxRoutes == 3
\* number of dispatches (calls of App::dispatch) per run, run concurrently
MaxDispatch == 2

---------------------------------------------------------------------------
(* Option and Result *)

None == <<>>
Some(x) == <<x>>
IsSome(o) == Len(o) = 1
IsNone(o) == Len(o) = 0
Unwrap(o) == o[1]

Ok(v) == [ok |-> TRUE, val |-> v]
Err(e) == [ok |-> FALSE, err |-> e]

---------------------------------------------------------------------------
(* Errors and status codes: src/src/lib.rs *)

STATUS_OK == 200
BAD_REQUEST == 400
UNAUTHORIZED == 401
NOT_FOUND == 404
METHOD_NOT_ALLOWED == 405
INTERNAL_SERVER_ERROR == 500

\* Error::StatusCode(sc, msg)
StatusCodeError(sc, msg) == [kind |-> "StatusCode", sc |-> sc, msg |-> msg]
\* Error::InternalServerError(msg)
InternalServerError(msg) == [kind |-> "InternalServerError", sc |-> 0, msg |-> msg]
\* Error::new(message)
ErrorNew(message) == InternalServerError(message)
\* Error::default()
ErrorDefault == InternalServerError("internal server error")

\* a `let`: Only({e(v) : v \in {x}}) is e with the value of x named v, the
\* value being computed once however often e uses it
Only(S) == CHOOSE x \in S : TRUE

---------------------------------------------------------------------------
(* The string operations of the Rust standard library the code uses *)

\* a trim that removes nothing
TrimEndMatches_None(s, ch) == s

\* str::trim_end_matches(ch): what is left once every trailing ch is removed
TrimEndMatches(s, ch) ==
    LET keep == CHOOSE n \in 0..Len(s) :
                    /\ n = 0 \/ s[n] # ch
                    /\ \A k \in (n + 1)..Len(s) : s[k] = ch
    IN  SubSeq(s, 1, keep)

\* str::trim_start_matches(ch): what is left once every leading ch is removed
TrimStartMatches(s, ch) ==
    LET from == CHOOSE n \in 1..(Len(s) + 1) :
                    /\ n = Len(s) + 1 \/ s[n] # ch
                    /\ \A k \in 1..(n - 1) : s[k] = ch
    IN  SubSeq(s, from, Len(s))

\* str::contains(ch)
Contains(s, ch) == \E i \in 1..Len(s) : s[i] = ch

\* str::starts_with(ch)
StartsWith(s, ch) == s # <<>> /\ s[1] = ch

\* str::split(ch), collected: the pieces between the separators, in order;
\* the empty string splits into one empty piece, and empty pieces between,
\* before and after separators are kept
\* where the k-th of the separators seps stands in s; 0 and Len(s) + 1 bound
\* the string
SeparatorAt(s, seps, k) ==
    IF k = 0
    THEN 0
    ELSE IF k = Cardinality(seps) + 1
         THEN Len(s) + 1
         ELSE CHOOSE i \in seps : Cardinality({j \in seps : j <= i}) = k

Split(s, ch) ==
    Only({[k \in 1..(Cardinality(seps) + 1) |->
              SubSeq(s, SeparatorAt(s, seps, k - 1) + 1, SeparatorAt(s, seps, k) - 1)]
            : seps \in {{i \in 1..Len(s) : s[i] = ch}}})

---------------------------------------------------------------------------
(* RoutePart and Path: src/src/path.rs *)

PathComponent(s) == [tag |-> "PathComponent", text |-> s]
Param(s) == [tag |-> "Param", text |-> s]
Leader == [tag |-> "Leader", text |-> <<>>]

\* the Default #[derive(Default)] would give: no parts
PathDefault_Empty == <<>>

\* impl Default for Path
PathDefault == <<Leader>>

\* the loop body of Path::new pushing the empty pieces as components
PushArg_KeepEmpty(parts, arg) ==
    IF StartsWith(arg, ":")
    THEN Append(parts, Param(TrimStartMatches(arg, ":")))
    ELSE Append(parts, PathComponent(arg))

\* the loop body of Path::new: one piece of the split pattern
PushArg(parts, arg) ==
    IF StartsWith(arg, ":")
    THEN Append(parts, Param(TrimStartMatches(arg, ":")))
    ELSE IF arg = <<>>
         THEN parts
         ELSE Append(parts, PathComponent(arg))

RECURSIVE PushArgs(_, _)
PushArgs(parts, args) ==
    IF args = <<>>
    THEN parts
    ELSE PushArgs(PushArg(parts, Head(args)), Tail(args))

\* Path::new without the return of the default path for a string that has
\* no slash
PathNew_AlwaysSplit(p) ==
    Only({PushArgs(PathDefault, args)
            : args \in {Split(TrimEndMatches(p, "/"), "/")}})

\* Path::new
PathNew(p) ==
    Only({IF ~Contains(trimmed, "/")
          THEN PathDefault
          ELSE Only({PushArgs(PathDefault, args) : args \in {Split(trimmed, "/")}})
            : trimmed \in {TrimEndMatches(p, "/")}})

\* the equality #[derive(PartialEq)] would give: the same parts
PathEq_Derived(self, other) == self = other

\* impl PartialEq for Path: self.eq(other). A PathComponent of self must
\* equal the part opposite; a Param of self accepts any part; the first
\* Leader of self passes and a second one fails.
PathEq(self, other) ==
    /\ Len(other) = Len(self)
    /\ \A i \in 1..Len(self) :
          CASE self[i].tag = "PathComponent" -> self[i] = other[i]
            [] self[i].tag = "Param" -> TRUE
            [] self[i].tag = "Leader" ->
                   ~\E j \in 1..(i - 1) : self[j].tag = "Leader"

\* Path::matches
PathMatches(self, s) == \E other \in {PathNew(s)} : PathEq(self, other)

\* Params = BTreeMap<String, String>
ParamsDefault == <<>>

\* an insert that stores the value under every key of the map
ParamsInsert_Smear(m, k, v) == [x \in (DOMAIN m) \cup {k} |-> v]

\* an insert that keeps the value a key already has
ParamsInsert_KeepFirst(m, k, v) ==
    [x \in (DOMAIN m) \cup {k} |-> IF x \in DOMAIN m THEN m[x] ELSE v]

\* BTreeMap::insert
ParamsInsert(m, k, v) ==
    [x \in (DOMAIN m) \cup {k} |-> IF x = k THEN v ELSE m[x]]

\* the loop of Path::extract without the comparison of the literals
RECURSIVE ExtractLoop_NoLiteralCheck(_, _, _, _)
ExtractLoop_NoLiteralCheck(self, parts, i, params) ==
    IF i > Len(self)
    THEN Ok(params)
    ELSE IF self[i].tag = "Param"
         THEN ExtractLoop_NoLiteralCheck(self, parts, i + 1,
                  ParamsInsert(params, self[i].text, parts[i]))
         ELSE ExtractLoop_NoLiteralCheck(self, parts, i + 1, params)

\* the loop of Path::extract binding a parameter to the piece before its own
RECURSIVE ExtractLoop_OffByOne(_, _, _, _)
ExtractLoop_OffByOne(self, parts, i, params) ==
    IF i > Len(self)
    THEN Ok(params)
    ELSE CASE self[i].tag = "Param" ->
                  ExtractLoop_OffByOne(self, parts, i + 1,
                      ParamsInsert(params, self[i].text,
                                   parts[IF i > 1 THEN i - 1 ELSE i]))
           [] self[i].tag = "PathComponent" ->
                  IF self[i].text # parts[i]
                  THEN Err(ErrorNew("invalid path for parameter extraction"))
                  ELSE ExtractLoop_OffByOne(self, parts, i + 1, params)
           [] self[i].tag = "Leader" ->
                  ExtractLoop_OffByOne(self, parts, i + 1, params)

\* the loop of Path::extract over self.0, i counting the parts
RECURSIVE ExtractLoop(_, _, _, _)
ExtractLoop(self, parts, i, params) ==
    IF i > Len(self)
    THEN Ok(params)
    ELSE CASE self[i].tag = "Param" ->
                  ExtractLoop(self, parts, i + 1,
                              ParamsInsert(params, self[i].text, parts[i]))
           [] self[i].tag = "PathComponent" ->
                  IF self[i].text # parts[i]
                  THEN Err(ErrorNew("invalid path for parameter extraction"))
                  ELSE ExtractLoop(self, parts, i + 1, params)
           [] self[i].tag = "Leader" ->
                  ExtractLoop(self, parts, i + 1, params)

\* Path::extract
PathExtract(self, prov) ==
    Only({IF trimmed = <<>> /\ PathEq(self, PathDefault)
          THEN Ok(ParamsDefault)
          ELSE Only({IF Len(parts) # Len(self)
                     THEN Err(ErrorNew("invalid parameters"))
                     ELSE ExtractLoop(self, parts, 1, ParamsDefault)
                       : parts \in {Split(trimmed, "/")}})
            : trimmed \in {TrimEndMatches(prov, "/")}})

\* Path::params pushing each name in front of the names found so far
RECURSIVE PathParams_Reversed(_)
PathParams_Reversed(self) ==
    IF self = <<>>
    THEN <<>>
    ELSE IF Head(self).tag = "Param"
         THEN PathParams_Reversed(Tail(self)) \o <<Head(self).text>>
         ELSE PathParams_Reversed(Tail(self))

\* Path::params
RECURSIVE PathParams(_)
PathParams(self) ==
    IF self = <<>>
    THEN <<>>
    ELSE IF Head(self).tag = "Param"
         THEN <<Head(self).text>> \o PathParams(Tail(self))
         ELSE PathParams(Tail(self))

\* the string a part is pushed as in Path::to_string
PartToString(part) ==
    IF part.tag = "PathComponent" THEN part.text
    ELSE IF part.tag = "Param" THEN <<":">> \o part.text
    ELSE <<>>

\* [String]::join
RECURSIVE Join(_, _)
Join(ss, sep) ==
    IF ss = <<>> THEN <<>>
    ELSE IF Len(ss) = 1 THEN Head(ss)
    ELSE Head(ss) \o sep \o Join(Tail(ss), sep)

\* Path::to_string, the canonical string of a path
PathToString(self) ==
    IF Len(self) < 2
    THEN <<"/">>
    ELSE Join([i \in 1..Len(self) |-> PartToString(self[i])], <<"/">>)

\* the characters of the model in the order of their bytes
Alphabet ==
    <<"/", "0", "1", "2", "3", "4", "5", "6", "7", "8", "9", ":",
      "a", "b", "c", "d", "e", "f", "g", "h", "i", "j", "k", "l", "m",
      "n", "o", "p", "q", "r", "s", "t", "u", "v", "w", "x", "y", "z">>

CharRank(ch) == CHOOSE i \in 1..Len(Alphabet) : Alphabet[i] = ch

\* String::cmp: the lexicographic order of the bytes
RECURSIVE StringCmp(_, _)
StringCmp(s, t) ==
    IF s = <<>> /\ t = <<>> THEN "Equal"
    ELSE IF s = <<>> THEN "Less"
    ELSE IF t = <<>> THEN "Greater"
    ELSE IF Head(s) = Head(t) THEN StringCmp(Tail(s), Tail(t))
    ELSE IF CharRank(Head(s)) < CharRank(Head(t)) THEN "Less"
    ELSE "Greater"

\* Ord for Path
PathCmp(self, other) == StringCmp(PathToString(self), PathToString(other))

---------------------------------------------------------------------------
(* Inputs of the path laboratory *)

RECURSIVE Concat(_)
Concat(ss) == IF ss = <<>> THEN <<>> ELSE Head(ss) \o Concat(Tail(ss))

TokenStrings(tokens, n) ==
    {Concat(ts) : ts \in UNION {[1..k -> tokens] : k \in 0..n}}

\* the pattern and the candidate of the documented extraction example
ExamplePattern == <<"/", "a", "/", ":", "x", "/", ":", "y", "/", "b">>
ExampleCandidate == <<"/", "a", "/", "1", "/", "2", "/", "b">>
ExampleBadCandidate == <<"/", "n", "o", "p", "e">>

Patterns ==
    TokenStrings({<<"/">>, <<"a">>, <<":", "x">>, <<":", "y">>}, MaxTokens)
        \cup {ExamplePattern}

\* candidates with a segment that begins with a colon
ColonCandidates == {<<"/", ":", "x">>, <<"/", "a", "/", ":", "x">>}

Candidates ==
    TokenStrings({<<"/">>, <<"a">>, <<"b">>}, MaxTokens)
        \cup {ExampleCandidate, ExampleBadCandidate} \cup ColonCandidates

Slash == <<"/">>
SlashExtra == <<"/", "e", "x", "t", "r", "a">>

\* the candidates tried against the compiled pattern p: the common ones, p
\* itself, p with a trailing slash and p followed by /extra
CandidatesOf(p) == Candidates \cup {p, p \o Slash, p \o SlashExtra}

---------------------------------------------------------------------------
(* Requests, responses, transient state *)

GET == "GET"
POST == "POST"

\* http::Request: method, uri path and headers (a map from name to value)
Request(method, uri, headers) ==
    [method |-> method, uri |-> uri, headers |-> headers]

\* http::Response: a status and a body; a body is a text followed by a
\* string argument (format!("hello, {}", name)), the argument empty if none
Body(text, arg) == [text |-> text, arg |-> arg]
Response(status, body) == [status |-> status, body |-> body]

\* the transient state of the router's tests, HelloState { name }
HelloStateInitial == [name |-> None]

\* the (request, response, state) triple of HTTPResult
Triple(req, response, state) ==
    [req |-> req, response |-> response, state |-> state]

---------------------------------------------------------------------------
(* Handler functions: the handlers of the tests and of the examples *)

NameKey == <<"n", "a", "m", "e">>

\* fn one: adds the header wakka and yields no response
one(req, response, params, state) ==
    Ok(Triple([req EXCEPT !.headers = ParamsInsert(@, "wakka", "wakka wakka")],
              None, state))

\* fn two: answers 200 when the header wakka is there
two(req, response, params, state) ==
    IF "wakka" \in DOMAIN req.headers
    THEN IF req.headers["wakka"] # "wakka wakka"
         THEN Err(ErrorNew("invalid header value"))
         ELSE IF IsSome(response)
              THEN Ok(Triple(req, response, state))
              ELSE Ok(Triple(req, Some(Response(STATUS_OK, Body("", <<>>))), state))
    ELSE Err(ErrorDefault)

\* fn handler_static
handler_static(req, response, params, state) ==
    Ok(Triple(req, Some(Response(BAD_REQUEST, Body("hello, world", <<>>))),
              HelloStateInitial))

\* fn handler_dynamic: params.get("name").unwrap() into the state and the body
handler_dynamic(req, response, params, state) ==
    LET name == params[NameKey]
        st == [state EXCEPT !.name = Some(name)]
    IN  Ok(Triple(req, Some(Response(STATUS_OK, Body("hello, ", Unwrap(st.name)))),
                  st))

\* fn handler_continued: state.name.unwrap() into the body
handler_continued(req, response, params, state) ==
    Ok(Triple(req, Some(Response(STATUS_OK, Body("hello, ", Unwrap(state.name)))),
              state))

\* the handlers that run to completion without touching the shared state
PureFuncs == {"one", "two", "handler_static", "handler_dynamic", "handler_continued"}

\* (self.handler)(req, response, params.clone(), app.clone(), state)
Call(f, req, response, params, state) ==
    CASE f = "one" -> one(req, response, params, state)
      [] f = "two" -> two(req, response, params, state)
      [] f = "handler_static" -> handler_static(req, response, params, state)
      [] f = "handler_dynamic" -> handler_dynamic(req, response, params, state)
      [] f = "handler_continued" -> handler_continued(req, response, params, state)

---------------------------------------------------------------------------
(* Handler chains: src/src/handler.rs, src/src/macros.rs *)

\* Handler::new
HandlerNew(handler, next) == [handler |-> handler, next |-> next]

Reverse(s) == [i \in 1..Len(s) |-> s[Len(s) + 1 - i]]

\* the linking loop of compose_handler!
RECURSIVE ComposeLoop(_, _)
ComposeLoop(funcs, last) ==
    IF funcs = <<>>
    THEN last
    ELSE ComposeLoop(Tail(funcs), Some(HandlerNew(Head(funcs), last)))

\* compose_handler! linking the functions in the order they were pushed
ComposeHandler_NoReverse(funcs) == Unwrap(ComposeLoop(funcs, None))

\* compose_handler!(f1, ..., fn), n >= 1
ComposeHandler(funcs) == Unwrap(ComposeLoop(Reverse(funcs), None))

---------------------------------------------------------------------------
(* Routes and the router: src/src/router.rs *)

\* Route::new
RouteNew(method, p, handler) ==
    [method |-> method, path |-> PathNew(p), handler |-> handler]

\* Router::add
RouterAdd(table, method, p, ch) == Append(table, RouteNew(method, p, ch))

\* RouteSelected without the method test
RouteSelected_AnyMethod(route, p, method) == PathMatches(route.path, p)

\* the condition of the scan in Router::dispatch
RouteSelected(route, p, method) ==
    PathMatches(route.path, p) /\ route.method = method

\* the scan of Router::dispatch choosing by the path alone and leaving the
\* method to Route::dispatch
RECURSIVE RouterScan_PathOnly(_, _, _, _)
RouterScan_PathOnly(table, i, p, method) ==
    IF i > Len(table)
    THEN 0
    ELSE IF PathMatches(table[i].path, p)
         THEN i
         ELSE RouterScan_PathOnly(table, i + 1, p, method)

\* the scan of Router::dispatch: the index of the route it dispatches to,
\* 0 when the loop ends without one
RECURSIVE RouterScan(_, _, _, _)
RouterScan(table, i, p, method) ==
    IF i > Len(table)
    THEN 0
    ELSE IF RouteSelected(table[i], p, method)
         THEN i
         ELSE RouterScan(table, i + 1, p, method)

\* the error of Router::dispatch when the scan ends
NoRouteError == StatusCodeError(METHOD_NOT_ALLOWED, "")

\* Route::dispatch testing the method before it extracts the parameters
RouteDispatchEntry_MethodFirst(route, prov, req) ==
    IF route.method # req.method
    THEN Err(StatusCodeError(NOT_FOUND, ""))
    ELSE PathExtract(route.path, prov)

\* Route::dispatch up to the call of perform: the params, or the error
RouteDispatchEntry(route, prov, req) ==
    Only({IF ~params.ok
          THEN params
          ELSE IF route.method # req.method
               THEN Err(StatusCodeError(NOT_FOUND, ""))
               ELSE params
            : params \in {PathExtract(route.path, prov)}})

\* RouterResponse without the is_none check: an absent response is answered
\* with an empty 200
RouterResponse_NoCheck(triple) ==
    IF IsNone(triple.response)
    THEN Ok(Response(STATUS_OK, Body("", <<>>)))
    ELSE Ok(Unwrap(triple.response))

\* Router::dispatch after Route::dispatch returned Ok: the response check
RouterResponse(triple) ==
    IF IsNone(triple.response)
    THEN Err(StatusCodeError(INTERNAL_SERVER_ERROR, ""))
    ELSE Ok(Unwrap(triple.response))

---------------------------------------------------------------------------
(* The application shell: src/src/app.rs *)

\* AppResponse answering every error with 500
AppResponse_Always500(rres) ==
    IF rres.ok
    THEN rres.val
    ELSE Response(INTERNAL_SERVER_ERROR, Body(rres.err.msg, <<>>))

\* the match of App::dispatch on the router's result
AppResponse(rres) ==
    IF rres.ok
    THEN rres.val
    ELSE IF rres.err.kind = "StatusCode"
         THEN Response(rres.err.sc, Body(rres.err.msg, <<>>))
         ELSE Response(INTERNAL_SERVER_ERROR, Body(rres.err.msg, <<>>))

\* the integer the shared state starts from
InitialState == 0

\* App::new
AppNewState == None
\* App::with_state(state): Some(Arc::new(Mutex::new(state)))
AppWithState(state) == Some([value |-> state, owner |-> None])

\* App::state handing out a copy of the value the App was built with
\* instead of a handle to its cell
AppState_Copy(gs) == IF IsNone(gs) THEN None ELSE AppWithState(InitialState)

\* App::state: self.global_state.clone(), a handle to the same cell
AppState(gs) == gs

---------------------------------------------------------------------------
(* One dispatch: a call of App::dispatch, from the request to the response *)

DispatchIds == 1..MaxDispatch

IdleDispatch ==
    [pc |-> "idle",            \* idle, router, perform, lock, read, write, unlock, done
     request |-> None,         \* the request App::dispatch was called with
     route |-> 0,              \* index of the route Router::dispatch chose, 0 if none
     initials |-> 0,           \* calls of T::initial() made by this dispatch
     node |-> None,            \* the Handler node perform is about to run
     req |-> None,             \* the request, response, params and state
     response |-> None,        \*   that node will be called with
     params |-> ParamsDefault,
     state |-> None,
     app |-> None,             \* the route table of the App clone handed to the handlers
     handle |-> FALSE,         \* holds a clone of the Arc returned by App::state
     seen |-> None,            \* the value read under the lock
     calls |-> <<>>,           \* the handler calls made, with inputs and outputs
     perform_result |-> None,  \* what the outermost Handler::perform returned
     router_result |-> None,   \* what Router::dispatch returned
     result |-> None]          \* what App::dispatch returned

\* Finish letting an error out of App::dispatch instead of a response
Finish_ErrorEscapes(dr, rres) ==
    [dr EXCEPT !.pc = "done",
               !.node = None,
               !.router_result = Some(rres),
               !.result = IF rres.ok THEN Some(rres.val) ELSE None]

\* Router::dispatch returns rres and App::dispatch maps it to the response
Finish(dr, rres) ==
    [dr EXCEPT !.pc = "done",
               !.node = None,
               !.router_result = Some(rres),
               !.result = Some(AppResponse(rres))]

\* PerformNext with the `?` lost: an error of a node that has a next node is
\* dropped and the chain goes on with the triple the node was given
PerformNext_IgnoreError(dr, res) ==
    IF ~res.ok /\ IsSome(Unwrap(dr.node).next)
    THEN [dr EXCEPT !.node = Unwrap(dr.node).next, !.pc = "perform"]
    ELSE IF ~res.ok
         THEN Finish([dr EXCEPT !.perform_result = Some(res)], res)
         ELSE IF IsSome(Unwrap(dr.node).next)
              THEN [dr EXCEPT !.req = Some(res.val.req),
                              !.response = res.val.response,
                              !.state = Some(res.val.state),
                              !.node = Unwrap(dr.node).next,
                              !.pc = "perform"]
              ELSE Finish([dr EXCEPT !.req = Some(res.val.req),
                                     !.response = res.val.response,
                                     !.state = Some(res.val.state),
                                     !.perform_result = Some(res)],
                          RouterResponse(res.val))

\* PerformNext with the scan of Router::dispatch going on after an error: the
\* next route that matches the request is dispatched to
PerformNext_NextRoute(dr, res) ==
    IF ~res.ok
    THEN Only({IF j = 0
               THEN Finish([dr EXCEPT !.perform_result = Some(res)], res)
               ELSE [dr EXCEPT !.route = j,
                               !.initials = @ + 1,
                               !.node = Some(router[j].handler),
                               !.req = dr.request,
                               !.response = None,
                               !.state = Some(HelloStateInitial),
                               !.pc = "perform"]
                 : j \in {RouterScan(router, dr.route + 1,
                                     Unwrap(dr.request).uri,
                                     Unwrap(dr.request).method)}})
    ELSE IF IsSome(Unwrap(dr.node).next)
         THEN [dr EXCEPT !.req = Some(res.val.req),
                         !.response = res.val.response,
                         !.state = Some(res.val.state),
                         !.node = Unwrap(dr.node).next,
                         !.pc = "perform"]
         ELSE Finish([dr EXCEPT !.req = Some(res.val.req),
                                !.response = res.val.response,
                                !.state = Some(res.val.state),
                                !.perform_result = Some(res)],
                     RouterResponse(res.val))

\* PerformNext handing the next node an empty Params instead of its own
PerformNext_DropParams(dr, res) ==
    IF ~res.ok
    THEN Finish([dr EXCEPT !.perform_result = Some(res)], res)
    ELSE IF IsSome(Unwrap(dr.node).next)
         THEN [dr EXCEPT !.req = Some(res.val.req),
                         !.response = res.val.response,
                         !.state = Some(res.val.state),
                         !.params = ParamsDefault,
                         !.node = Unwrap(dr.node).next,
                         !.pc = "perform"]
         ELSE Finish([dr EXCEPT !.req = Some(res.val.req),
                                !.response = res.val.response,
                                !.state = Some(res.val.state),
                                !.perform_result = Some(res)],
                     RouterResponse(res.val))

\* PerformNext with the response check inside perform: a last node that
\* returns no response makes perform itself return the error
PerformNext_RequireResponse(dr, res) ==
    IF ~res.ok
    THEN Finish([dr EXCEPT !.perform_result = Some(res)], res)
    ELSE IF IsSome(Unwrap(dr.node).next)
         THEN [dr EXCEPT !.req = Some(res.val.req),
                         !.response = res.val.response,
                         !.state = Some(res.val.state),
                         !.node = Unwrap(dr.node).next,
                         !.pc = "perform"]
         ELSE Finish([dr EXCEPT !.req = Some(res.val.req),
                                !.response = res.val.response,
                                !.state = Some(res.val.state),
                                !.perform_result =
                                    IF IsNone(res.val.response)
                                    THEN Some(RouterResponse(res.val))
                                    ELSE Some(res)],
                     RouterResponse(res.val))

\* PerformNext keeping the response a node was given when the node returns
\* none
PerformNext_KeepResponse(dr, res) ==
    IF ~res.ok
    THEN Finish([dr EXCEPT !.perform_result = Some(res)], res)
    ELSE Only({IF IsSome(Unwrap(dr.node).next)
               THEN [dr EXCEPT !.req = Some(res.val.req),
                               !.response = kept,
                               !.state = Some(res.val.state),
                               !.node = Unwrap(dr.node).next,
                               !.pc = "perform"]
               ELSE Finish([dr EXCEPT !.req = Some(res.val.req),
                                      !.response = kept,
                                      !.state = Some(res.val.state),
                                      !.perform_result = Some(res)],
                           RouterResponse([res.val EXCEPT !.response = kept]))
                 : kept \in {IF IsNone(res.val.response)
                             THEN dr.response ELSE res.val.response}})

\* PerformNext recursing with the request the node was given instead of the
\* one it returned
PerformNext_StaleRequest(dr, res) ==
    IF ~res.ok
    THEN Finish([dr EXCEPT !.perform_result = Some(res)], res)
    ELSE IF IsSome(Unwrap(dr.node).next)
         THEN [dr EXCEPT !.response = res.val.response,
                         !.state = Some(res.val.state),
                         !.node = Unwrap(dr.node).next,
                         !.pc = "perform"]
         ELSE Finish([dr EXCEPT !.req = Some(res.val.req),
                                !.response = res.val.response,
                                !.state = Some(res.val.state),
                                !.perform_result = Some(res)],
                     RouterResponse(res.val))

\* Handler::perform after (self.handler)(...).await gave res: the error
\* leaves through `?`; with a next node perform recurses into it with the
\* returned triple; without one the triple is returned to the router
PerformNext(dr, res) ==
    IF ~res.ok
    THEN Finish([dr EXCEPT !.perform_result = Some(res)], res)
    ELSE IF IsSome(Unwrap(dr.node).next)
         THEN [dr EXCEPT !.req = Some(res.val.req),
                         !.response = res.val.response,
                         !.state = Some(res.val.state),
                         !.node = Unwrap(dr.node).next,
                         !.pc = "perform"]
         ELSE Finish([dr EXCEPT !.req = Some(res.val.req),
                                !.response = res.val.response,
                                !.state = Some(res.val.state),
                                !.perform_result = Some(res)],
                     RouterResponse(res.val))

\* a handler call as recorded: the function, what it was given, and what it
\* returned (None while it is still running)
CallRecord(dr, out) ==
    [handler |-> Unwrap(dr.node).handler,
     req |-> Unwrap(dr.req),
     response |-> dr.response,
     params |-> dr.params,
     state |-> Unwrap(dr.state),
     out |-> out]

\* the call returned res: record it and go on as perform does
HandlerReturn(dr, res) ==
    PerformNext([dr EXCEPT !.calls[Len(dr.calls)].out = Some(res)], res)

\* a lock that never excludes
LockFree_Always(cell) == TRUE

\* the Mutex can be locked: nobody holds it
LockFree(cell) == IsNone(cell.owner)

---------------------------------------------------------------------------
(* Inputs of the application *)

UriABC == <<"/", "a", "/", "b", "/", "c">>
UriAXC == <<"/", "a", "/", "x", "/", "c">>
UriSlashSlashABC == <<"/", "/", "a", "/", "b", "/", "c">>
UriX == <<"/", "x">>
UriRoot == <<"/">>
UriBadRoute == <<"/", "b", "a", "d", "/", "r", "o", "u", "t", "e">>

PatABC == UriABC
PatANameC == <<"/", "a", "/", ":", "n", "a", "m", "e", "/", "c">>
PatName == <<"/", ":", "n", "a", "m", "e">>
PatRoot == <<"/">>

Methods == {GET, POST}
Uris == {UriABC, UriAXC, UriSlashSlashABC, UriX, UriRoot, UriBadRoute}
Requests == {Request(m, u, <<>>) : m \in Methods, u \in Uris}

\* the routes an application may register: method, pattern and the list of
\* functions handed to compose_handler!
RouteDecls ==
    {[method |-> GET, pattern |-> PatABC, funcs |-> <<"handler_static">>],
     [method |-> GET, pattern |-> PatANameC,
      funcs |-> <<"handler_dynamic", "handler_continued">>],
     [method |-> POST, pattern |-> PatABC, funcs |-> <<"one", "two">>],
     [method |-> GET, pattern |-> PatABC,
      funcs |-> <<"handler_static", "two", "one">>],
     [method |-> POST, pattern |-> PatName,
      funcs |-> <<"increment", "handler_static">>],
     [method |-> GET, pattern |-> PatRoot, funcs |-> <<"one">>]}

---------------------------------------------------------------------------
(* Actions of the application *)

\* App::get, App::post, ...: Router::add of a composed chain
Add(decl) ==
    /\ ~serving
    /\ Len(router) < MaxRoutes
    /\ router' = RouterAdd(router, decl.method, decl.pattern,
                           ComposeHandler(decl.funcs))
    /\ UNCHANGED <<serving, global_state, disp>>
    /\ UNCHANGED pathVars

\* App::serve (or TestApp::new): the App is moved into the server
Serve ==
    /\ ~serving
    /\ serving' = TRUE
    /\ UNCHANGED <<router, global_state, disp>>
    /\ UNCHANGED pathVars

\* self.clone() of App::dispatch: the derived Clone copies the Vec of routes
AppClone(table) == table

\* App::dispatch taking the Mutex of the shared state for the length of the
\* dispatch
AppDispatch_HoldsLock(d, r) ==
    /\ serving
    /\ d \in DOMAIN disp
    /\ disp[d].pc = "idle"
    /\ IsSome(global_state) => LockFree(Unwrap(global_state))
    /\ disp' = [disp EXCEPT ![d] = [@ EXCEPT !.pc = "router",
                                             !.request = Some(r),
                                             !.app = Some(AppClone(router))]]
    /\ global_state' = IF IsSome(global_state)
                       THEN Some([Unwrap(global_state) EXCEPT !.owner = Some(d)])
                       ELSE global_state
    /\ UNCHANGED <<serving, router>>
    /\ UNCHANGED pathVars

\* App::dispatch is called with a request
AppDispatch(d, r) ==
    /\ serving
    /\ d \in DOMAIN disp
    /\ disp[d].pc = "idle"
    /\ disp' = [disp EXCEPT ![d] = [@ EXCEPT !.pc = "router",
                                             !.request = Some(r),
                                             !.app = Some(AppClone(router))]]
    /\ UNCHANGED <<serving, router, global_state>>
    /\ UNCHANGED pathVars

\* RouterRoute making the initial state once for the scan and once more for
\* Route::dispatch
RouterRoute_InitialTwice(dr, table, r, i) ==
    LET chosen == [dr EXCEPT !.route = i, !.initials = @ + 2]
    IN  Only({IF ~entry.ok
              THEN Finish(chosen, entry)
              ELSE [chosen EXCEPT !.pc = "perform",
                                  !.node = Some(table[i].handler),
                                  !.req = Some(r),
                                  !.response = None,
                                  !.params = entry.val,
                                  !.state = Some(HelloStateInitial)]
                : entry \in {RouteDispatchEntry(table[i], r.uri, r)}})

\* Router::dispatch once the scan chose route i: T::initial(), Route::dispatch
\* up to the first handler call, or its return when Route::dispatch fails
\* before perform
RouterRoute(dr, table, r, i) ==
    LET chosen == [dr EXCEPT !.route = i, !.initials = @ + 1]
    IN  Only({IF ~entry.ok
              THEN Finish(chosen, entry)
              ELSE [chosen EXCEPT !.pc = "perform",
                                  !.node = Some(table[i].handler),
                                  !.req = Some(r),
                                  !.response = None,
                                  !.params = entry.val,
                                  !.state = Some(HelloStateInitial)]
                : entry \in {RouteDispatchEntry(table[i], r.uri, r)}})

\* Router::dispatch from its call to the first handler call, or to its
\* return when no route is chosen or Route::dispatch fails before perform
RouterEnter(dr, table) ==
    LET r == Unwrap(dr.request)
    IN  Only({IF i = 0
              THEN Finish(dr, Err(NoRouteError))
              ELSE RouterRoute(dr, table, r, i)
                : i \in {RouterScan(table, 1, r.uri, r.method)}})

\* Router::dispatch: the scan, Route::dispatch up to the first handler call
RouterDispatch(d) ==
    /\ d \in DOMAIN disp
    /\ disp[d].pc = "router"
    /\ disp' = [disp EXCEPT ![d] = RouterEnter(@, router)]
    /\ UNCHANGED <<serving, router, global_state>>
    /\ UNCHANGED pathVars

\* Perform with one request slot for all the dispatches in flight: the
\* function is given the request of the lowest dispatch that has one
Perform_SharedRequest(d) ==
    /\ d \in DOMAIN disp
    /\ disp[d].pc = "perform"
    /\ Unwrap(disp[d].node).handler \in PureFuncs
    /\ \E src \in {e \in DOMAIN disp :
                      /\ IsSome(disp[e].req)
                      /\ \A f \in DOMAIN disp : IsSome(disp[f].req) => e <= f} :
          LET dr == [disp[d] EXCEPT !.req = disp[src].req]
              res == Call(Unwrap(dr.node).handler, Unwrap(dr.req), dr.response,
                          dr.params, Unwrap(dr.state))
          IN  disp' = [disp EXCEPT ![d] =
                         HandlerReturn([dr EXCEPT !.calls = Append(@, CallRecord(dr, None))],
                                       res)]
    /\ UNCHANGED <<serving, router, global_state>>
    /\ UNCHANGED pathVars

\* Perform undoing the work of the chain when a function fails: the shared
\* value goes back to what this dispatch read under the lock
Perform_Rollback(d) ==
    /\ d \in DOMAIN disp
    /\ disp[d].pc = "perform"
    /\ Unwrap(disp[d].node).handler \in PureFuncs
    /\ LET dr == disp[d]
           res == Call(Unwrap(dr.node).handler, Unwrap(dr.req), dr.response,
                       dr.params, Unwrap(dr.state))
       IN  /\ disp' = [disp EXCEPT ![d] =
                         HandlerReturn([dr EXCEPT !.calls = Append(@, CallRecord(dr, None))],
                                       res)]
           /\ global_state' = IF ~res.ok /\ IsSome(dr.seen) /\ IsSome(global_state)
                              THEN Some([Unwrap(global_state) EXCEPT
                                            !.value = Unwrap(dr.seen)])
                              ELSE global_state
    /\ UNCHANGED <<serving, router>>
    /\ UNCHANGED pathVars

\* Handler::perform runs a node whose function does not touch the shared state
Perform(d) ==
    /\ d \in DOMAIN disp
    /\ disp[d].pc = "perform"
    /\ Unwrap(disp[d].node).handler \in PureFuncs
    /\ LET dr == disp[d]
           res == Call(Unwrap(dr.node).handler, Unwrap(dr.req), dr.response,
                       dr.params, Unwrap(dr.state))
       IN  disp' = [disp EXCEPT ![d] =
                      HandlerReturn([dr EXCEPT !.calls = Append(@, CallRecord(dr, None))],
                                    res)]
    /\ UNCHANGED <<serving, router, global_state>>
    /\ UNCHANGED pathVars

\* the handler increment is called: app.state().await, and 401 without a state
IncrementEnter(dr, gs) ==
    LET called == [dr EXCEPT !.calls = Append(@, CallRecord(dr, None))]
    IN  IF IsNone(AppState(gs))
        THEN HandlerReturn(called, Err(StatusCodeError(UNAUTHORIZED, "")))
        ELSE [called EXCEPT !.pc = "lock", !.handle = TRUE]

IncrementCall(d) ==
    /\ d \in DOMAIN disp
    /\ disp[d].pc = "perform"
    /\ Unwrap(disp[d].node).handler = "increment"
    /\ disp' = [disp EXCEPT ![d] = IncrementEnter(@, global_state)]
    /\ UNCHANGED <<serving, router, global_state>>
    /\ UNCHANGED pathVars

\* a lock() that returns at once, whoever holds the Mutex
Lock_Barging(d) ==
    /\ d \in DOMAIN disp
    /\ disp[d].pc = "lock"
    /\ global_state' = Some([Unwrap(global_state) EXCEPT !.owner = Some(d)])
    /\ disp' = [disp EXCEPT ![d].pc = "read"]
    /\ UNCHANGED <<serving, router>>
    /\ UNCHANGED pathVars

\* state.lock().await
Lock(d) ==
    /\ d \in DOMAIN disp
    /\ disp[d].pc = "lock"
    /\ LockFree(Unwrap(global_state))
    /\ global_state' = Some([Unwrap(global_state) EXCEPT !.owner = Some(d)])
    /\ disp' = [disp EXCEPT ![d].pc = "read"]
    /\ UNCHANGED <<serving, router>>
    /\ UNCHANGED pathVars

\* let v = *guard
ReadCounter(d) ==
    /\ d \in DOMAIN disp
    /\ disp[d].pc = "read"
    /\ disp' = [disp EXCEPT ![d] =
                  [@ EXCEPT !.pc = "write",
                            !.seen = Some(Unwrap(AppState(global_state)).value)]]
    /\ UNCHANGED <<serving, router, global_state>>
    /\ UNCHANGED pathVars

\* *guard = v + 1
WriteCounter(d) ==
    /\ d \in DOMAIN disp
    /\ disp[d].pc = "write"
    /\ global_state' = Some([Unwrap(global_state) EXCEPT
                                !.value = Unwrap(disp[d].seen) + 1])
    /\ disp' = [disp EXCEPT ![d].pc = "unlock"]
    /\ UNCHANGED <<serving, router>>
    /\ UNCHANGED pathVars

\* the guard is dropped and the handler returns its inputs unchanged
Unlock(d) ==
    /\ d \in DOMAIN disp
    /\ disp[d].pc = "unlock"
    /\ global_state' = Some([Unwrap(global_state) EXCEPT !.owner = None])
    /\ LET dr == disp[d]
       IN  disp' = [disp EXCEPT ![d] =
                      HandlerReturn(dr, Ok(Triple(Unwrap(dr.req), dr.response,
                                                  Unwrap(dr.state))))]
    /\ UNCHANGED <<serving, router>>
    /\ UNCHANGED pathVars

\* the route a handler registers on the App it was handed
HandlerDecl == [method |-> GET, pattern |-> PatName, funcs |-> <<"handler_static">>]

\* a registration that also lands in the table of the serving App, as if the
\* handed App shared its routes with it
RegisterOn_Shared(own, shared, decl) ==
    [own |-> RouterAdd(own, decl.method, decl.pattern, ComposeHandler(decl.funcs)),
     shared |-> RouterAdd(shared, decl.method, decl.pattern,
                          ComposeHandler(decl.funcs))]

\* app.get(...) called by a handler on the App it was handed: Router::add on
\* the clone's own table, the table of the serving App is another Vec
RegisterOn(own, shared, decl) ==
    [own |-> RouterAdd(own, decl.method, decl.pattern, ComposeHandler(decl.funcs)),
     shared |-> shared]

\* a handler of a running chain registers on its App a route that App does
\* not have yet
HandlerRegisters(d) ==
    /\ d \in DOMAIN disp
    /\ disp[d].pc = "perform"
    /\ \A i \in 1..Len(Unwrap(disp[d].app)) :
          Unwrap(disp[d].app)[i] #
              RouteNew(HandlerDecl.method, HandlerDecl.pattern,
                       ComposeHandler(HandlerDecl.funcs))
    /\ \E reg \in {RegisterOn(Unwrap(disp[d].app), router, HandlerDecl)} :
          /\ router' = reg.shared
          /\ disp' = [disp EXCEPT ![d].app = Some(reg.own)]
    /\ UNCHANGED <<serving, global_state>>
    /\ UNCHANGED pathVars

---------------------------------------------------------------------------
(* Actions of the path laboratory *)

\* path.matches(s) on the freshly compiled path
Matches(s) ==
    /\ op = "new"
    /\ provided' = s
    /\ matched' = PathMatches(path, s)
    /\ extracted' = None
    /\ op' = "matches"
    /\ UNCHANGED <<pattern, path, canonical, recompiled, listed>>
    /\ UNCHANGED appVars

\* path.extract(s) on the freshly compiled path
Extract(s) ==
    /\ op = "new"
    /\ provided' = s
    /\ extracted' = Some(PathExtract(path, s))
    /\ matched' = FALSE
    /\ op' = "extract"
    /\ UNCHANGED <<pattern, path, canonical, recompiled, listed>>
    /\ UNCHANGED appVars

\* path.to_string() on the freshly compiled path
ToString ==
    /\ op = "new"
    /\ canonical' = Some(PathToString(path))
    /\ op' = "to_string"
    /\ UNCHANGED <<pattern, path, provided, matched, extracted, recompiled, listed>>
    /\ UNCHANGED appVars

\* Path::new on the canonical string
Recompile ==
    /\ op = "to_string"
    /\ recompiled' = Some(PathNew(Unwrap(canonical)))
    /\ op' = "recompiled"
    /\ UNCHANGED <<pattern, path, provided, matched, extracted, canonical, listed>>
    /\ UNCHANGED appVars

\* path.params() on the freshly compiled path
ListParams ==
    /\ op = "new"
    /\ listed' = Some(PathParams(path))
    /\ op' = "params"
    /\ UNCHANGED <<pattern, path, provided, matched, extracted, canonical, recompiled>>
    /\ UNCHANGED appVars

---------------------------------------------------------------------------
(* Specifications *)

PathOff ==
    /\ pattern = <<>>
    /\ path = PathDefault
    /\ provided = <<>>
    /\ op = "off"
    /\ matched = FALSE
    /\ extracted = None
    /\ canonical = None
    /\ recompiled = None
    /\ listed = None

AppOff ==
    /\ serving = FALSE
    /\ router = <<>>
    /\ global_state = None
    /\ disp = <<>>

\* a fresh App, App::new() or App::with_state(0), serving one dispatch
Init ==
    /\ PathOff
    /\ serving = FALSE
    /\ router = <<>>
    /\ global_state \in {AppNewState, AppWithState(InitialState)}
    /\ disp = [d \in {1} |-> IdleDispatch]

DispatchStep(d) ==
    \/ \E r \in Requests : AppDispatch(d, r)
    \/ RouterDispatch(d)
    \/ Perform(d)
    \/ IncrementCall(d)
    \/ Lock(d)
    \/ ReadCounter(d)
    \/ WriteCounter(d)
    \/ Unlock(d)

Next ==
    \/ \E decl \in RouteDecls : Add(decl)
    \/ Serve
    \/ \E d \in DispatchIds : DispatchStep(d)

Spec == Init /\ [][Next]_vars

\* the dispatch is driven to its end: the handlers terminate
FairSpec == Spec /\ \A d \in DispatchIds : WF_vars(DispatchStep(d))

\* an App serving its routes to MaxDispatch concurrent dispatches
ServeTable ==
    <<RouteNew(GET, PatABC, ComposeHandler(<<"handler_static">>)),
      RouteNew(GET, PatANameC,
               ComposeHandler(<<"handler_dynamic", "handler_continued">>)),
      RouteNew(POST, PatABC, ComposeHandler(<<"one", "two">>)),
      RouteNew(POST, PatName, ComposeHandler(<<"increment", "handler_static">>)),
      RouteNew(GET, PatRoot, ComposeHandler(<<"one">>)),
      RouteNew(POST, PatANameC,
               ComposeHandler(<<"handler_static", "handler_dynamic">>)),
      RouteNew(POST, PatRoot, ComposeHandler(<<"handler_static", "one">>))>>

ServeInit ==
    /\ PathOff
    /\ serving = TRUE
    /\ router = ServeTable
    /\ global_state \in {AppNewState, AppWithState(InitialState)}
    /\ disp = [d \in DispatchIds |-> IdleDispatch]

ServeNext == \E d \in DispatchIds : DispatchStep(d)

ServeSpec == ServeInit /\ [][ServeNext]_vars

\* the future of App::dispatch is dropped while it waits in perform, for the
\* next handler or for the lock: nothing of it runs again, and nothing it did
\* is undone
Abandon(d) ==
    /\ d \in DOMAIN disp
    /\ disp[d].pc \in {"perform", "lock"}
    /\ disp' = [disp EXCEPT ![d] = [@ EXCEPT !.pc = "abandoned",
                                             !.node = None,
                                             !.handle = FALSE]]
    /\ UNCHANGED <<serving, router, global_state>>
    /\ UNCHANGED pathVars

\* an App with a counter as shared state whose chains change the counter and
\* then fail, or succeed
AbandonTable ==
    <<RouteNew(POST, PatName, ComposeHandler(<<"increment", "two">>)),
      RouteNew(GET, PatName, ComposeHandler(<<"increment", "handler_static">>)),
      RouteNew(POST, PatABC, ComposeHandler(<<"one", "increment", "two">>))>>

AbandonInit ==
    /\ PathOff
    /\ serving = TRUE
    /\ router = AbandonTable
    /\ global_state = AppWithState(InitialState)
    /\ disp = [d \in DispatchIds |-> IdleDispatch]

AbandonNext ==
    \E d \in DispatchIds :
        \/ DispatchStep(d)
        \/ Abandon(d)

AbandonSpec == AbandonInit /\ [][AbandonNext]_vars

\* MaxDispatch concurrent dispatches of an App whose handlers contend for the
\* lock of the shared state, on a fair executor: a task that can take a step
\* is not left waiting for ever
ConcurrentTable ==
    <<RouteNew(POST, PatName, ComposeHandler(<<"increment", "handler_static">>)),
      RouteNew(GET, PatName, ComposeHandler(<<"handler_static", "increment">>)),
      RouteNew(GET, PatRoot, ComposeHandler(<<"one">>))>>

ConcurrentRequests ==
    {Request(POST, UriX, <<>>), Request(GET, UriX, <<>>), Request(GET, UriRoot, <<>>)}

ConcurrentInit ==
    /\ PathOff
    /\ serving = TRUE
    /\ router = ConcurrentTable
    /\ global_state \in {AppNewState, AppWithState(InitialState)}
    /\ disp = [d \in DispatchIds |-> IdleDispatch]

ConcurrentStep(d) ==
    \/ \E r \in ConcurrentRequests : AppDispatch(d, r)
    \/ RouterDispatch(d)
    \/ Perform(d)
    \/ IncrementCall(d)
    \/ Lock(d)
    \/ ReadCounter(d)
    \/ WriteCounter(d)
    \/ Unlock(d)

ConcurrentNext == \E d \in DispatchIds : ConcurrentStep(d)

FairConcurrentSpec ==
    /\ ConcurrentInit
    /\ [][ConcurrentNext]_vars
    /\ \A d \in DispatchIds : WF_vars(ConcurrentStep(d))

\* the routes and the provided paths of the route tests
RouteLabDecls ==
    {[method |-> GET, pattern |-> PatABC, funcs |-> <<"handler_static">>],
     [method |-> GET, pattern |-> PatANameC, funcs |-> <<"handler_dynamic">>],
     [method |-> POST, pattern |-> PatABC, funcs |-> <<"one", "two">>]}

RouteLabProvided == Uris \cup {<<"/", "a">>}

\* Route::dispatch called on a route directly, as test_route_static and
\* test_route_dynamic do, with a provided path and a request of any method:
\* the extraction and the method test, then the first handler call; an
\* error is kept as the caller Router::dispatch passes it on
RouteCall(d, prov, r) ==
    /\ d \in DOMAIN disp
    /\ disp[d].pc = "idle"
    /\ provided' = prov
    /\ disp' = [disp EXCEPT ![d] =
          Only({IF ~entry.ok
                THEN Finish(called, entry)
                ELSE [called EXCEPT !.pc = "perform",
                                    !.node = Some(router[1].handler),
                                    !.req = Some(r),
                                    !.response = None,
                                    !.params = entry.val,
                                    !.state = Some(HelloStateInitial)]
                  : entry \in {RouteDispatchEntry(router[1], prov, r)},
                    called \in {[disp[d] EXCEPT !.request = Some(r),
                                                !.route = 1,
                                                !.initials = 1,
                                                !.app = Some(AppClone(router))]}})]
    /\ UNCHANGED <<serving, router, global_state>>
    /\ UNCHANGED <<pattern, path, op, matched, extracted,
                   canonical, recompiled, listed>>

\* one route and one call of its dispatch
RouteInit ==
    /\ PathOff
    /\ serving = TRUE
    /\ router \in {<<RouteNew(decl.method, decl.pattern, ComposeHandler(decl.funcs))>> :
                      decl \in RouteLabDecls}
    /\ global_state = AppNewState
    /\ disp = [d \in {1} |-> IdleDispatch]

RouteNext ==
    \/ \E prov \in RouteLabProvided, r \in Requests : RouteCall(1, prov, r)
    \/ Perform(1)

RouteSpec == RouteInit /\ [][RouteNext]_vars

\* two dispatches of a serving App whose handlers may register routes on the
\* App they are handed
RegInit ==
    /\ PathOff
    /\ serving = TRUE
    /\ router = ServeTable
    /\ global_state \in {AppNewState, AppWithState(InitialState)}
    /\ disp = [d \in {1, 2} |-> IdleDispatch]

RegNext ==
    \/ \E d \in DispatchIds : DispatchStep(d)
    \/ \E d \in DispatchIds : HandlerRegisters(d)

RegSpec == RegInit /\ [][RegNext]_vars

\* the path laboratory: a pattern is compiled, then matched and extracted
\* against candidates
PathInit ==
    /\ AppOff
    /\ pattern \in Patterns
    /\ path = PathNew(pattern)
    /\ provided = <<>>
    /\ op = "new"
    /\ matched = FALSE
    /\ extracted = None
    /\ canonical = None
    /\ recompiled = None
    /\ listed = None

PathNext ==
    \/ \E s \in CandidatesOf(pattern) : Matches(s)
    \/ \E s \in CandidatesOf(pattern) : Extract(s)

PathSpec == PathInit /\ [][PathNext]_vars

\* a pattern written without a slash, and the request path of the same text
PatNoSlash == <<"a", "b", "c">>
UriAbc == <<"/", "a", "b", "c">>

\* the chain registered under the pattern without a slash
NoSlashFuncs == <<"handler_static">>

NoSlashDecls ==
    {[method |-> GET, pattern |-> PatNoSlash, funcs |-> NoSlashFuncs],
     [method |-> GET, pattern |-> UriAbc, funcs |-> <<"one", "two">>]}

NoSlashRequests ==
    {Request(GET, UriRoot, <<>>), Request(GET, UriAbc, <<>>),
     Request(POST, UriRoot, <<>>)}

\* the strings compiled as patterns and as candidates
NoSlashStrings == {PatNoSlash, PatNoSlash \o Slash, PatRoot, UriAbc}

\* an App registering routes with and without a slash in their pattern and
\* serving one dispatch, beside a path compiled from such strings
NoSlashInit ==
    /\ pattern \in NoSlashStrings
    /\ path = PathNew(pattern)
    /\ provided = <<>>
    /\ op = "new"
    /\ matched = FALSE
    /\ extracted = None
    /\ canonical = None
    /\ recompiled = None
    /\ listed = None
    /\ serving = FALSE
    /\ router = <<>>
    /\ global_state = AppNewState
    /\ disp = [d \in {1} |-> IdleDispatch]

NoSlashNext ==
    \/ \E decl \in NoSlashDecls : Add(decl)
    \/ Serve
    \/ \E r \in NoSlashRequests : AppDispatch(1, r)
    \/ RouterDispatch(1)
    \/ Perform(1)
    \/ \E s \in NoSlashStrings : Matches(s)

NoSlashSpec == NoSlashInit /\ [][NoSlashNext]_vars

\* patterns of parameters, the same name declared twice among them, and
\* the candidates extracted against them
ParamPatterns == TokenStrings({<<"/">>, <<":", "x">>, <<":", "y">>}, MaxTokens)

ParamCandidates == TokenStrings({<<"/">>, <<"a">>, <<"b">>}, MaxTokens)

ParamInit ==
    /\ AppOff
    /\ pattern \in ParamPatterns
    /\ path = PathNew(pattern)
    /\ provided = <<>>
    /\ op = "new"
    /\ matched = FALSE
    /\ extracted = None
    /\ canonical = None
    /\ recompiled = None
    /\ listed = None

ParamNext == \E s \in ParamCandidates : Extract(s)

ParamSpec == ParamInit /\ [][ParamNext]_vars

\* patterns whose segments may begin with one colon or with several
ColonPatterns ==
    TokenStrings({<<"/">>, <<"a">>, <<":">>, <<"x">>}, MaxTokens)
        \cup {ExamplePattern}

\* a pattern is compiled, then rendered and recompiled, or asked for its
\* parameters
CanonInit ==
    /\ AppOff
    /\ pattern \in ColonPatterns
    /\ path = PathNew(pattern)
    /\ provided = <<>>
    /\ op = "new"
    /\ matched = FALSE
    /\ extracted = None
    /\ canonical = None
    /\ recompiled = None
    /\ listed = None

CanonNext ==
    \/ ToString
    \/ Recompile
    \/ ListParams

CanonSpec == CanonInit /\ [][CanonNext]_vars

---------------------------------------------------------------------------
(* Properties *)

\* the functions of a chain, head first
RECURSIVE ChainFuncs(_)
ChainFuncs(h) ==
    <<h.handler>> \o (IF IsSome(h.next) THEN ChainFuncs(Unwrap(h.next)) ELSE <<>>)

Min(S) == CHOOSE x \in S : \A y \in S : x <= y

\* the routes whose path matches the request path
PathMatching(r) == {i \in 1..Len(router) : PathMatches(router[i].path, r.uri)}
\* the routes whose path matches the request path and whose method is the
\* request's
Matching(r) == {i \in PathMatching(r) : router[i].method = r.method}

Done(d) == d \in DOMAIN disp /\ disp[d].pc = "done"

\* C1: a finished dispatch whose request matches some route on path and
\* method has run the handler chain of the matching route registered first:
\* its calls start at that chain's head and follow that chain.
C1_FirstMatchingRouteRuns ==
    \A d \in DOMAIN disp :
        Done(d) /\ Matching(Unwrap(disp[d].request)) # {} =>
            LET chain == ChainFuncs(
                    router[Min(Matching(Unwrap(disp[d].request)))].handler)
                calls == disp[d].calls
            IN  /\ calls # <<>>
                /\ Len(calls) <= Len(chain)
                /\ \A k \in 1..Len(calls) : calls[k].handler = chain[k]

\* C2: when the k-th call of a dispatch is the first to return an error,
\* the calls made are exactly the first k functions of the chosen chain in
\* order, no call follows it, and the dispatch is over with that error as
\* the router's result.
C2_ErrorStopsChain ==
    \A d \in DOMAIN disp :
        \A k \in 1..Len(disp[d].calls) :
            LET calls == disp[d].calls
            IN  (IsSome(calls[k].out) /\ ~Unwrap(calls[k].out).ok) =>
                    /\ k = Len(calls)
                    /\ \A j \in 1..k :
                          calls[j].handler =
                              ChainFuncs(router[disp[d].route].handler)[j]
                    /\ \A j \in 1..(k - 1) :
                          IsSome(calls[j].out) /\ Unwrap(calls[j].out).ok
                    /\ disp[d].pc = "done"
                    /\ disp[d].router_result = Some(Err(Unwrap(calls[k].out).err))

C2_Witness ==
    \E d \in DOMAIN disp :
        /\ Done(d)
        /\ disp[d].route > 0
        /\ Len(ChainFuncs(router[disp[d].route].handler)) = 3
        /\ Len(disp[d].calls) = 2
        /\ ~Unwrap(disp[d].calls[2].out).ok
        /\ Unwrap(disp[d].calls[1].out).ok

\* C3: the first call of a dispatch gets the dispatch's own request, no
\* response and the initial state, and every later call gets exactly the
\* request, response and state the call before it returned.
C3_NextGetsWhatPreviousReturned ==
    \A d \in DOMAIN disp :
        LET calls == disp[d].calls
        IN  /\ calls # <<>> =>
                  /\ calls[1].req = Unwrap(disp[d].request)
                  /\ calls[1].response = None
                  /\ calls[1].state = HelloStateInitial
            /\ \A k \in 1..(Len(calls) - 1) :
                  /\ IsSome(calls[k].out)
                  /\ Unwrap(calls[k].out).ok
                  /\ calls[k + 1].req = Unwrap(calls[k].out).val.req
                  /\ calls[k + 1].response = Unwrap(calls[k].out).val.response
                  /\ calls[k + 1].state = Unwrap(calls[k].out).val.state

\* two dispatches in flight at once, one whose first handler changed the
\* request and one whose first handler changed the state, each seen by its
\* own second handler
C3_Witness ==
    \E d, e \in DOMAIN disp :
        /\ d # e
        /\ Len(disp[d].calls) = 2
        /\ Unwrap(disp[d].calls[1].out).val.req # disp[d].calls[1].req
        /\ disp[d].calls[2].req = Unwrap(disp[d].calls[1].out).val.req
        /\ Len(disp[e].calls) = 2
        /\ Unwrap(disp[e].calls[1].out).val.state # disp[e].calls[1].state
        /\ disp[e].calls[2].state = Unwrap(disp[e].calls[1].out).val.state

C5_NoResponseIs500 ==
    \A d \in DOMAIN disp :
        Done(d) =>
            LET pres == Unwrap(disp[d].perform_result)
                rres == Unwrap(disp[d].router_result)
            IN  /\ (IsSome(disp[d].perform_result) /\ pres.ok
                       /\ IsNone(pres.val.response)) =>
                       /\ ~rres.ok
                       /\ Unwrap(disp[d].result).status = INTERNAL_SERVER_ERROR
                /\ rres.ok =>
                       /\ IsSome(disp[d].perform_result)
                       /\ pres.ok
                       /\ pres.val.response = Some(rres.val)

C5_Witness ==
    \E d \in DOMAIN disp :
        /\ Done(d)
        /\ IsSome(disp[d].perform_result)
        /\ Unwrap(disp[d].perform_result).ok
        /\ IsNone(Unwrap(disp[d].perform_result).val.response)
        /\ Unwrap(disp[d].result).status = INTERNAL_SERVER_ERROR

\* C6: every call of App::dispatch ends, a finished dispatch holds a
\* response (never an error left unmapped), and the response once returned
\* never changes.
C6_DispatchAlwaysResponds ==
    /\ \A d \in DispatchIds :
          (d \in DOMAIN disp /\ disp[d].pc # "idle") ~> Done(d)
    /\ [](\A d \in DOMAIN disp :
             /\ Done(d) => IsSome(disp[d].result)
             /\ ~Done(d) => IsNone(disp[d].result))
    /\ [][\A d \in DOMAIN disp :
             IsSome(disp[d].result) => disp'[d].result = disp[d].result]_vars

\* the dispatch against the empty route table ended with a response
C6_Witness ==
    \E d \in DOMAIN disp :
        /\ Done(d)
        /\ router = <<>>
        /\ IsSome(disp[d].result)
        /\ ~Unwrap(disp[d].router_result).ok

\* the dispatches that ran the handler increment to its end
Incremented ==
    {d \in DOMAIN disp :
        \E k \in 1..Len(disp[d].calls) :
            /\ disp[d].calls[k].handler = "increment"
            /\ IsSome(disp[d].calls[k].out)
            /\ Unwrap(disp[d].calls[k].out).ok}

\* the dispatches that called the handler increment
CalledIncrement ==
    {d \in DOMAIN disp :
        \E k \in 1..Len(disp[d].calls) : disp[d].calls[k].handler = "increment"}

\* C7: once all dispatches are over, the counter is its initial value plus
\* the number of dispatches whose handler incremented it.
C7_NoLostUpdate ==
    (IsSome(global_state) /\ \A d \in DOMAIN disp : Done(d)) =>
        /\ Incremented = CalledIncrement
        /\ Unwrap(global_state).value = InitialState + Cardinality(CalledIncrement)

\* all MaxDispatch dispatches incremented
C7_Witness ==
    /\ IsSome(global_state)
    /\ \A d \in DispatchIds : Done(d) /\ d \in Incremented
    /\ Unwrap(global_state).value = InitialState + MaxDispatch

\* the dispatches inside the critical section
Holders == {d \in DOMAIN disp : disp[d].pc \in {"read", "write", "unlock"}}

\* C8: at most one dispatch is inside the critical section, it is the
\* holder the Mutex records, and a dispatch about to read or write the
\* value is that holder.
C8_OneLockHolder ==
    /\ Cardinality(Holders) <= 1
    /\ \A d \in Holders : global_state # None /\ Unwrap(global_state).owner = Some(d)
    /\ IsSome(global_state) =>
          \A d \in DOMAIN disp :
              Unwrap(global_state).owner = Some(d) => d \in Holders

\* one dispatch holds the lock while another, holding a clone of the
\* handle, waits for it
C8_Witness ==
    \E d, e \in DOMAIN disp :
        /\ d # e
        /\ disp[d].handle /\ disp[e].handle
        /\ disp[d].pc = "write"
        /\ disp[e].pc = "lock"

\* C9: a finished dispatch whose request matches no route on path and
\* method, whether some route matches its path or none does, got the
\* no-route error from the router and called no handler.
C9_NoRoute ==
    \A d \in DOMAIN disp :
        (Done(d) /\ Matching(Unwrap(disp[d].request)) = {}) =>
            /\ disp[d].router_result = Some(Err(StatusCodeError(METHOD_NOT_ALLOWED, "")))
            /\ disp[d].calls = <<>>
            /\ disp[d].perform_result = None
            /\ disp[d].route = 0
            /\ disp[d].initials = 0

\* a registered path with an unregistered method
C9_Witness ==
    \E d \in DOMAIN disp :
        /\ Done(d)
        /\ PathMatching(Unwrap(disp[d].request)) # {}
        /\ Matching(Unwrap(disp[d].request)) = {}
        /\ disp[d].router_result = Some(Err(NoRouteError))

\* a candidate /s1/.../sn, n >= 1, of non-empty segments
NormalCandidate(c) ==
    /\ Len(c) >= 2
    /\ c[1] = "/"
    /\ \A k \in 2..Len(Split(c, "/")) : Split(c, "/")[k] # <<>>

NoDuplicates(seq) ==
    \A i, j \in 1..Len(seq) : seq[i] = seq[j] => i = j

ToSet(seq) == {seq[i] : i \in 1..Len(seq)}

\* C10: for a pattern with distinct parameter names and a candidate
\* /s1/.../sn of non-empty segments that it matches, extract succeeds, the
\* keys of the mapping are the pattern's parameter names, and each name is
\* mapped to the candidate segment at the parameter's position.
C10_ExtractMapsParams ==
    (/\ op = "extract"
     /\ NormalCandidate(provided)
     /\ PathMatches(path, provided)
     /\ NoDuplicates(PathParams(path))) =>
        /\ IsSome(extracted)
        /\ Unwrap(extracted).ok
        /\ DOMAIN Unwrap(extracted).val = ToSet(PathParams(path))
        /\ \A i \in 1..Len(path) :
              path[i].tag = "Param" =>
                  Unwrap(extracted).val[path[i].text] = Split(provided, "/")[i]

\* /a/:x/:y/b against /a/1/2/b gives {x: 1, y: 2}
C10_Witness ==
    /\ op = "extract"
    /\ pattern = ExamplePattern
    /\ provided = ExampleCandidate
    /\ extracted = Some(Ok([k \in {<<"x">>, <<"y">>} |->
                               IF k = <<"x">> THEN <<"1">> ELSE <<"2">>]))

\* the segments of a pattern or candidate: the non-empty pieces between its
\* slashes
Segments(s) == SelectSeq(Split(s, "/"), LAMBDA piece : piece # <<>>)

\* a pattern segment that names a parameter
IsParamSegment(seg) == StartsWith(seg, ":")

IsLiteralPattern(p) ==
    \A i \in 1..Len(Split(p, "/")) : ~IsParamSegment(Split(p, "/")[i])

\* C12: the path compiled from a literal pattern p matches p and p followed
\* by a slash, does not match p followed by /extra, and p followed by a
\* slash compiles to the path p compiles to.
C12_LiteralPatternMatchesItself ==
    (op = "matches" /\ IsLiteralPattern(pattern)) =>
        /\ provided = pattern => matched
        /\ provided = pattern \o Slash =>
              /\ matched
              /\ PathNew(provided) = path
              /\ PathEq(PathNew(provided), path)
        /\ provided = pattern \o SlashExtra => ~matched

\* /a/a matched against /a/a/
C12_Witness ==
    /\ op = "matches"
    /\ pattern = <<"/", "a", "/", "a">>
    /\ provided = <<"/", "a", "/", "a", "/">>
    /\ matched
    /\ PathNew(provided) = path

\* C13: the pattern / and the empty pattern compile to the path of the one
\* part Leader; that path matches the candidate /, and extract on it with
\* the candidate / returns the empty Params.
C13_RootPath ==
    pattern \in {<<>>, Slash} =>
        /\ path = <<Leader>>
        /\ (op = "matches" /\ provided = Slash) => matched
        /\ (op = "extract" /\ provided = Slash) =>
              extracted = Some(Ok(ParamsDefault))

\* the empty pattern, extract called with /
C13_Witness ==
    /\ pattern = <<>>
    /\ path = <<Leader>>
    /\ op = "extract"
    /\ provided = Slash
    /\ extracted = Some(Ok(ParamsDefault))

\* the segments extract sees in a candidate: the pieces between the slashes
\* of the candidate without its trailing slashes, empty pieces kept; the
\* piece before the leading slash stands opposite the Leader
ExtractPieces(c) == Split(TrimEndMatches(c, "/"), "/")

\* the errors of Path::extract
ExtractErrors ==
    {ErrorNew("invalid parameters"),
     ErrorNew("invalid path for parameter extraction")}

\* C14: extract returns an error, and no mapping, whenever the candidate
\* has another number of segments than the path or a literal of the path
\* differs from the candidate segment at its position.
C14_ExtractRejects ==
    LET pieces == ExtractPieces(provided)
    IN  (/\ op = "extract"
         /\ \/ Len(pieces) # Len(path)
            \/ \E i \in 1..Len(path) :
                  /\ i <= Len(pieces)
                  /\ path[i].tag = "PathComponent"
                  /\ path[i].text # pieces[i]) =>
            /\ IsSome(extracted)
            /\ ~Unwrap(extracted).ok
            /\ Unwrap(extracted).err \in ExtractErrors
            /\ DOMAIN Unwrap(extracted) = {"ok", "err"}

\* /a/:x/:y/b against /nope
C14_Witness ==
    /\ op = "extract"
    /\ pattern = ExamplePattern
    /\ provided = ExampleBadCandidate
    /\ extracted = Some(Err(ErrorNew("invalid parameters")))


RECURSIVE LastNode(_)
LastNode(h) == IF IsSome(h.next) THEN LastNode(Unwrap(h.next)) ELSE h

\* the declarations a registered route can have been added from: those
\* whose Route::new is the route, field by field
DeclsOf(route) ==
    {decl \in RouteDecls :
        /\ decl.method = route.method
        /\ ComposeHandler(decl.funcs) = route.handler
        /\ PathNew(decl.pattern) = route.path}

\* the functions a dispatch has called, in the order of the calls
CalledFuncs(dr) == [j \in 1..Len(dr.calls) |-> dr.calls[j].handler]

\* C16: the chain composed from the declared list f1, ..., fn has f1 as its
\* head node and fn as its node without a next; a dispatch calls the
\* functions in the declared order, and when no handler fails it has called
\* f1, ..., fn, each exactly once.
C16_ChainRunsInDeclaredOrder ==
    /\ \A i \in 1..Len(router) :
          \A decls \in {DeclsOf(router[i])} :
             /\ decls # {}
             /\ \A decl \in decls :
                   /\ router[i].handler.handler = Head(decl.funcs)
                   /\ LastNode(router[i].handler).handler = decl.funcs[Len(decl.funcs)]
                   /\ Len(ChainFuncs(router[i].handler)) = Len(decl.funcs)
    /\ \A d \in DOMAIN disp :
          disp[d].route > 0 =>
             \A decl \in DeclsOf(router[disp[d].route]) :
                /\ Len(disp[d].calls) <= Len(decl.funcs)
                /\ CalledFuncs(disp[d]) = SubSeq(decl.funcs, 1, Len(disp[d].calls))
                /\ (/\ IsSome(disp[d].perform_result)
                    /\ Unwrap(disp[d].perform_result).ok) =>
                       CalledFuncs(disp[d]) = decl.funcs

\* the chain declared as one, two has run to its end without an error
C16_Witness ==
    \E d \in DOMAIN disp :
        /\ Done(d)
        /\ disp[d].route > 0
        /\ [method |-> POST, pattern |-> PatABC, funcs |-> <<"one", "two">>]
              \in DeclsOf(router[disp[d].route])
        /\ IsSome(disp[d].perform_result)
        /\ Unwrap(disp[d].perform_result).ok
        /\ CalledFuncs(disp[d]) = <<"one", "two">>


\* the calls of increment a dispatch has made
IncrementCalls(dr) ==
    {j \in 1..Len(dr.calls) : dr.calls[j].handler = "increment"}

\* an App built with new: state() is absent in every handler, which then
\* answers 401 and never reaches the lock
NoStateSeen ==
    \A d \in DOMAIN disp :
        /\ ~disp[d].handle
        /\ disp[d].pc \notin {"lock", "read", "write", "unlock"}
        /\ IsNone(disp[d].seen)
        /\ \A j \in IncrementCalls(disp[d]) :
              disp[d].calls[j].out = Some(Err(StatusCodeError(UNAUTHORIZED, "")))

\* an App built with with_state: every handler that asked got a handle, and
\* the value a lock holder has read is the value of the one cell, that is,
\* the initial value or the value the last holder wrote
OneCellSeen ==
    \A d \in DOMAIN disp :
        /\ IncrementCalls(disp[d]) # {} => disp[d].handle
        /\ disp[d].pc = "write" => disp[d].seen = Some(Unwrap(global_state).value)
        /\ disp[d].pc = "write" =>
              Unwrap(disp[d].seen) = InitialState + Cardinality(Incremented)

\* C17: the shared-state slot never changes between absent and present;
\* without a state every handler of every dispatch sees it absent; with a
\* state every handler of every dispatch gets a handle to the one cell, so a
\* lock holder reads what the holder before it wrote.
C17_SharedSlotFixed ==
    /\ [](IF IsNone(global_state) THEN NoStateSeen ELSE OneCellSeen)
    /\ [][IsSome(global_state') <=> IsSome(global_state)]_vars

\* one dispatch has incremented the value and another one, holding the lock,
\* has read the incremented value
C17_Witness ==
    \E d, e \in DOMAIN disp :
        /\ d # e
        /\ Done(d) /\ d \in Incremented
        /\ disp[e].handle
        /\ disp[e].pc = "write"
        /\ disp[e].seen = Some(InitialState + 1)
        /\ Unwrap(global_state).value = InitialState + 1


\* C18: two compiled paths are equal exactly when their canonical strings
\* are equal, equality is symmetric, and two paths compare Equal exactly
\* when they are equal; the order is that of the canonical strings.
C18_EqIsCanonicalStringEq ==
    op = "matches" =>
        \A other \in {PathNew(provided)} :
            /\ PathEq(path, other) <=> PathToString(path) = PathToString(other)
            /\ PathEq(path, other) <=> PathEq(other, path)
            /\ PathEq(path, other) <=> PathCmp(path, other) = "Equal"
            /\ PathCmp(path, other) = StringCmp(PathToString(path), PathToString(other))


\* C19: once Router::dispatch has selected a route for a request, the
\* route's path matches the request path, extraction of the parameters from
\* that path succeeds, and the dispatch does not end with an error of
\* Path::extract.
C19_SelectedRouteExtracts ==
    \A d \in DOMAIN disp :
        disp[d].route > 0 =>
            \A route \in {router[disp[d].route]}, r \in {Unwrap(disp[d].request)} :
                /\ RouteSelected(route, r.uri, r.method)
                /\ PathMatches(route.path, r.uri) => PathExtract(route.path, r.uri).ok
                /\ Done(d) =>
                      \A e \in ExtractErrors : disp[d].router_result # Some(Err(e))


\* the positions of the slashes of a string
SlashPositions(s) == {i \in 1..Len(s) : s[i] = "/"}

\* s with the slash at position i replaced by two slashes
DoubleSlashAt(s, i) == SubSeq(s, 1, i) \o Slash \o SubSeq(s, i + 1, Len(s))

\* s with every slash replaced by two slashes
RECURSIVE DoubleSlashes(_)
DoubleSlashes(s) ==
    IF s = <<>> THEN <<>>
    ELSE IF Head(s) = "/" THEN Slash \o Slash \o DoubleSlashes(Tail(s))
    ELSE <<Head(s)>> \o DoubleSlashes(Tail(s))

HasDoubledSlash(s) ==
    \E i \in 1..(Len(TrimEndMatches(s, "/")) - 1) : s[i] = "/" /\ s[i + 1] = "/"

\* C21: a candidate with a duplicated slash is not normalised by matches:
\* the empty segment the duplicate leaves makes the candidate fail matching
\* against every compiled pattern.
C21_DoubledSlashNeverMatches ==
    (op = "matches" /\ HasDoubledSlash(provided)) => ~matched


FailedCalls(dr) ==
    {j \in 1..Len(dr.calls) : IsSome(dr.calls[j].out) /\ ~Unwrap(dr.calls[j].out).ok}

\* the calls of a dispatch are calls of the nodes of the chain of its one
\* route, head first and each node at most once; a failed call is the last
\* call of a finished dispatch, whose router returned that error
OneChainOnce ==
    \A d \in DOMAIN disp :
        /\ disp[d].initials <= 1
        /\ disp[d].route = 0 => disp[d].calls = <<>>
        /\ disp[d].route > 0 =>
              \A chain \in {ChainFuncs(router[disp[d].route].handler)} :
                  /\ Len(disp[d].calls) <= Len(chain)
                  /\ CalledFuncs(disp[d]) = SubSeq(chain, 1, Len(disp[d].calls))
        /\ \A j \in FailedCalls(disp[d]) :
              /\ j = Len(disp[d].calls)
              /\ Done(d)
              /\ disp[d].router_result = disp[d].calls[j].out
              /\ disp[d].route = Min(Matching(Unwrap(disp[d].request)))

\* a dispatch that has chosen its route keeps it, and a dispatch that is
\* over or has had a handler fail does nothing more
NoRetryStep ==
    \A d \in DOMAIN disp :
        /\ disp[d].route > 0 => disp'[d].route = disp[d].route
        /\ (Done(d) \/ FailedCalls(disp[d]) # {}) => disp'[d] = disp[d]

\* C23: a dispatch executes the chain of at most one route and calls each
\* node of it at most once; after a handler of the first matching route has
\* failed no handler is called again, the dispatch is not retried and no
\* later route that matches the request is tried.
C23_OneChainNoRetry == []OneChainOnce /\ [][NoRetryStep]_vars

\* a handler of the first of two matching routes failed and the dispatch is
\* over
C23_Witness ==
    \E d \in DOMAIN disp :
        /\ Done(d)
        /\ FailedCalls(disp[d]) = {Len(disp[d].calls)}
        /\ Cardinality(Matching(Unwrap(disp[d].request))) >= 2
        /\ disp[d].route = Min(Matching(Unwrap(disp[d].request)))
        /\ Len(disp[d].calls) = 2


\* a step that changes the table appends one route made from a declaration
\* and keeps the routes that were there, in their order
AddAppendsOne ==
    router' # router =>
        /\ Len(router') = Len(router) + 1
        /\ SubSeq(router', 1, Len(router)) = router
        /\ \E decl \in RouteDecls :
              router'[Len(router')] =
                  RouteNew(decl.method, decl.pattern, ComposeHandler(decl.funcs))

\* the pairs of routes of the table with the same method and the same
\* canonical path, the earlier one first
DuplicateRoutes ==
    {ij \in (1..Len(router)) \X (1..Len(router)) :
        /\ ij[1] < ij[2]
        /\ router[ij[1]].method = router[ij[2]].method
        /\ PathToString(router[ij[1]].path) = PathToString(router[ij[2]].path)}

\* a finished dispatch whose request matches two such routes has run the
\* chain of the earlier-registered route
EarlierDuplicateRuns ==
    \A d \in DOMAIN disp :
        \A ij \in DuplicateRoutes :
            (/\ Done(d)
             /\ ij[1] \in Matching(Unwrap(disp[d].request))
             /\ ij[2] \in Matching(Unwrap(disp[d].request))) =>
                /\ disp[d].route = Min(Matching(Unwrap(disp[d].request)))
                /\ disp[d].route # ij[2]
                /\ disp[d].calls # <<>>
                /\ disp[d].calls[1].handler = router[disp[d].route].handler.handler

\* C24: a registration appends exactly one route at the end of the table
\* and leaves the others as they were, also when a route with the same
\* method and canonical path is there already; the table then holds both,
\* and a dispatch that matches them runs the earlier-registered one.
C24_AddAppendsEarlierRuns == [][AddAppendsOne]_vars /\ []EarlierDuplicateRuns


\* the table a dispatch was handed has grown by a route its handler
\* registered
HasRegistered(d) == IsSome(disp[d].app) /\ Len(Unwrap(disp[d].app)) > Len(router)

\* C25: no step of a serving App changes its route table: whatever the
\* dispatches do, and whatever their handlers register on the App they were
\* handed, the table the next dispatch is routed by holds the routes
\* registered before serving, in their order.
C25_TableFixedWhileServing ==
    /\ [](serving => router = ServeTable)
    /\ [][serving => router' = router]_vars
    /\ [](\A d \in DOMAIN disp :
             IsSome(disp[d].app) =>
                SubSeq(Unwrap(disp[d].app), 1, Len(router)) = router)

\* a dispatch whose handler registered a route is over, and another
\* dispatch, begun on the unchanged table, got no route for a request the
\* registered route would match
C25_Witness ==
    \E d, e \in DOMAIN disp :
        /\ d # e
        /\ Done(d) /\ HasRegistered(d)
        /\ Done(e) /\ ~HasRegistered(e)
        /\ disp[e].app = Some(ServeTable)
        /\ Unwrap(disp[e].request) = Request(GET, UriX, <<>>)
        /\ disp[e].router_result = Some(Err(NoRouteError))


\* what Route::dispatch extracted for a dispatch: the parameters of the path
\* of the chosen route in the path of the request App::dispatch was given
ExtractedFor(dr) == PathExtract(router[dr.route].path, Unwrap(dr.request).uri)

\* C26: every handler call of a dispatch is given the Params the router
\* extracted from the path of the dispatch's request, whatever the handlers
\* before it returned as request, response or state.
C26_SameParamsForAll ==
    \A d \in DOMAIN disp :
        \A j \in 1..Len(disp[d].calls) :
            /\ ExtractedFor(disp[d]).ok
            /\ disp[d].calls[j].params = ExtractedFor(disp[d]).val
            /\ disp[d].calls[j].params = disp[d].calls[1].params

\* the second handler of a chain is given the non-empty Params the first
\* one was given, though the first one returned another state
C26_Witness ==
    \E d \in DOMAIN disp :
        /\ Len(disp[d].calls) = 2
        /\ disp[d].calls[1].params # ParamsDefault
        /\ disp[d].calls[2].params = disp[d].calls[1].params
        /\ disp[d].calls[2].state # disp[d].calls[1].state


\* the calls a chain of functions that leave the shared state alone makes
\* when it is run on its own from the given node on
RECURSIVE ChainCalls(_, _, _, _, _)
ChainCalls(node, req, response, params, state) ==
    Only({<<[handler |-> node.handler, req |-> req, response |-> response,
             params |-> params, state |-> state, out |-> Some(res)]>>
          \o (IF res.ok /\ IsSome(node.next)
              THEN ChainCalls(Unwrap(node.next), res.val.req, res.val.response,
                              params, res.val.state)
              ELSE <<>>)
            : res \in {Call(node.handler, req, response, params, state)}})

\* a request run on its own against the table, as Router::dispatch does it:
\* the route chosen (0 if none), whether its chain leaves the shared state
\* alone, the calls made and what Router::dispatch returns
AloneRun(table, r) ==
    Only({IF i = 0
          THEN [route |-> 0, pure |-> TRUE, calls |-> <<>>,
                result |-> Err(NoRouteError)]
          ELSE Only({
             IF \E k \in 1..Len(funcs) : funcs[k] \notin PureFuncs
             THEN [route |-> i, pure |-> FALSE, calls |-> <<>>,
                   result |-> Err(NoRouteError)]
             ELSE IF ~entry.ok
             THEN [route |-> i, pure |-> TRUE, calls |-> <<>>, result |-> entry]
             ELSE Only({[route |-> i, pure |-> TRUE, calls |-> calls,
                         result |-> IF ~Unwrap(calls[Len(calls)].out).ok
                                    THEN Unwrap(calls[Len(calls)].out)
                                    ELSE RouterResponse(
                                             Unwrap(calls[Len(calls)].out).val)]
                          : calls \in {ChainCalls(table[i].handler, r, None,
                                                  entry.val, HelloStateInitial)}})
               : funcs \in {ChainFuncs(table[i].handler)},
                 entry \in {RouteDispatchEntry(table[i], r.uri, r)}})
            : i \in {RouterScan(table, 1, r.uri, r.method)}})

\* C27: a dispatch whose chain leaves the shared state alone makes, under
\* every interleaving with the other dispatches, the calls it makes when it
\* runs on its own, each with the request, response, params and state of
\* its own chain, and ends with the response that its request and the route
\* table determine.
C27_DispatchesIndependent ==
    \A d \in DOMAIN disp :
        (IsSome(disp[d].request) /\ disp[d].pc # "router") =>
            \A alone \in {AloneRun(router, Unwrap(disp[d].request))} :
                alone.pure =>
                    /\ disp[d].route = alone.route
                    /\ Len(disp[d].calls) <= Len(alone.calls)
                    /\ disp[d].calls = SubSeq(alone.calls, 1, Len(disp[d].calls))
                    /\ Done(d) =>
                          /\ disp[d].calls = alone.calls
                          /\ disp[d].router_result = Some(alone.result)
                          /\ disp[d].result = Some(AppResponse(alone.result))

\* a dispatch of POST /a/b/c is over with its 200 while another dispatch of
\* the same request is between its two handlers
C27_Witness ==
    \E d, e \in DOMAIN disp :
        /\ d # e
        /\ disp[d].request = Some(Request(POST, UriABC, <<>>))
        /\ disp[e].request = disp[d].request
        /\ Done(d)
        /\ Unwrap(disp[d].result).status = STATUS_OK
        /\ disp[e].pc = "perform"
        /\ Len(disp[e].calls) = 1
        /\ disp[e].req # disp[e].request


\* C28: perform fails only when a handler fails: when the last node of the
\* chain returned Ok, perform returned that node's triple as Ok, also when
\* the triple holds no response, and it is Router::dispatch that answers
\* the absent response with the error.
C28_PerformReturnsFinalTriple ==
    \A d \in DOMAIN disp :
        /\ (IsSome(disp[d].perform_result) /\ ~Unwrap(disp[d].perform_result).ok) =>
              \E j \in FailedCalls(disp[d]) :
                  disp[d].perform_result = disp[d].calls[j].out
        /\ (Done(d) /\ disp[d].calls # <<>> /\ FailedCalls(disp[d]) = {}) =>
              \A last \in {Unwrap(disp[d].calls[Len(disp[d].calls)].out)} :
                  /\ disp[d].perform_result = Some(last)
                  /\ Unwrap(disp[d].perform_result).ok
                  /\ IsNone(last.val.response) =>
                        /\ disp[d].router_result =
                              Some(Err(StatusCodeError(INTERNAL_SERVER_ERROR, "")))
                        /\ Unwrap(disp[d].perform_result).val =
                              Triple(Unwrap(disp[d].req), None, Unwrap(disp[d].state))

\* the chain of GET / is the one function one, which returns no response
C28_Witness ==
    \E d \in DOMAIN disp :
        /\ Done(d)
        /\ CalledFuncs(disp[d]) = <<"one">>
        /\ IsSome(disp[d].perform_result)
        /\ Unwrap(disp[d].perform_result).ok
        /\ IsNone(Unwrap(disp[d].perform_result).val.response)
        /\ disp[d].router_result = Some(Err(StatusCodeError(INTERNAL_SERVER_ERROR, "")))


\* the responses the calls of a dispatch returned, None where a call
\* returned none or failed
ReturnedResponses(dr) ==
    [j \in 1..Len(dr.calls) |->
        IF IsSome(dr.calls[j].out) /\ Unwrap(dr.calls[j].out).ok
        THEN Unwrap(dr.calls[j].out).val.response
        ELSE None]

\* C29: a finished dispatch none of whose handlers failed answers with the
\* response the last node of its chain returned, whatever the nodes before
\* it returned: with HTTP 500 when the last node returned none, with the
\* last node's response otherwise.
C29_LastResponseWins ==
    \A d \in DOMAIN disp :
        (Done(d) /\ disp[d].calls # <<>> /\ FailedCalls(disp[d]) = {}) =>
            \A last \in {ReturnedResponses(disp[d])[Len(disp[d].calls)]} :
                /\ IsNone(last) =>
                      /\ ~Unwrap(disp[d].router_result).ok
                      /\ Unwrap(disp[d].result) =
                            Response(INTERNAL_SERVER_ERROR, Body("", <<>>))
                /\ IsSome(last) =>
                      /\ disp[d].router_result = Some(Ok(Unwrap(last)))
                      /\ disp[d].result = last

\* one dispatch whose first handler returned a response and whose last one
\* returned none, answered with 500; another whose last handler returned
\* another response than the first, answered with the last one
C29_Witness ==
    \E d, e \in DOMAIN disp :
        /\ Done(d) /\ Done(e)
        /\ CalledFuncs(disp[d]) = <<"handler_static", "one">>
        /\ IsSome(ReturnedResponses(disp[d])[1])
        /\ IsNone(ReturnedResponses(disp[d])[2])
        /\ Unwrap(disp[d].result).status = INTERNAL_SERVER_ERROR
        /\ CalledFuncs(disp[e]) = <<"handler_static", "handler_dynamic">>
        /\ IsSome(ReturnedResponses(disp[e])[1])
        /\ ReturnedResponses(disp[e])[2] # ReturnedResponses(disp[e])[1]
        /\ disp[e].result = ReturnedResponses(disp[e])[2]
        /\ Unwrap(disp[e].result).status = STATUS_OK


\* C30: Route::dispatch calls no handler and returns an error when the
\* provided path fails the extraction or when the method of the request is
\* not the route's; the error of the extraction is returned also when the
\* method differs, and the error for the method is the status 404.
C30_RouteDispatchErrors ==
    \A d \in DOMAIN disp :
        disp[d].pc # "idle" =>
            \A ext \in {PathExtract(router[1].path, provided)},
               r \in {Unwrap(disp[d].request)} :
                /\ ~ext.ok =>
                      /\ Done(d)
                      /\ disp[d].calls = <<>>
                      /\ disp[d].router_result = Some(ext)
                /\ (ext.ok /\ router[1].method # r.method) =>
                      /\ Done(d)
                      /\ disp[d].calls = <<>>
                      /\ disp[d].router_result =
                            Some(Err(StatusCodeError(NOT_FOUND, "")))
                /\ (ext.ok /\ router[1].method = r.method /\ Done(d)) =>
                      disp[d].calls # <<>>

\* /x provided to the route GET /a/b/c with a POST request: the error is
\* the one of the extraction
C30_Witness ==
    \E d \in DOMAIN disp :
        /\ Done(d)
        /\ router[1].method = GET
        /\ router[1].path = PathNew(PatABC)
        /\ provided = UriX
        /\ Unwrap(disp[d].request).method = POST
        /\ disp[d].calls = <<>>
        /\ disp[d].router_result = Some(Err(ErrorNew("invalid parameters")))


\* what App::dispatch answers when the router found no route
NoRouteResponse == Response(METHOD_NOT_ALLOWED, Body("", <<>>))

\* C31: a dispatch for which the router has no route, because no route has
\* its path or because none of the routes with its path has its method,
\* ends with the status 405 and an empty body; the 404 of the method test of
\* Route::dispatch is never what Router::dispatch returns nor what
\* App::dispatch answers.
C31_NoRouteIs405Never404 ==
    \A d \in DOMAIN disp :
        Done(d) =>
            /\ Matching(Unwrap(disp[d].request)) = {} =>
                  /\ disp[d].router_result = Some(Err(NoRouteError))
                  /\ disp[d].result = Some(NoRouteResponse)
            /\ disp[d].router_result # Some(Err(StatusCodeError(NOT_FOUND, "")))
            /\ Unwrap(disp[d].result).status # NOT_FOUND

\* one dispatch for a path no route has and one for a path a route has
\* under another method, both answered with 405
C31_Witness ==
    \E d, e \in DOMAIN disp :
        /\ Done(d) /\ Done(e)
        /\ PathMatching(Unwrap(disp[d].request)) = {}
        /\ disp[d].result = Some(NoRouteResponse)
        /\ PathMatching(Unwrap(disp[e].request)) # {}
        /\ Matching(Unwrap(disp[e].request)) = {}
        /\ disp[e].result = Some(NoRouteResponse)


\* the dispatches whose handler wrote the counter under the lock
Committed == Incremented \cup {d \in DOMAIN disp : disp[d].pc = "unlock"}

\* the dispatches that ended without a response of their chain: a handler
\* returned an error, or the dispatch was abandoned
Failed ==
    {d \in DOMAIN disp :
        \/ disp[d].pc = "abandoned"
        \/ Done(d) /\ ~Unwrap(disp[d].router_result).ok}

\* every write under the lock is in the counter, whatever became of the
\* dispatch that made it
CommittedPersists ==
    Unwrap(global_state).value = InitialState + Cardinality(Committed)

\* the step in which a dispatch fails or is abandoned leaves the shared
\* state as it is
FailureKeepsState ==
    \A d \in DOMAIN disp :
        (d \in Failed' /\ d \notin Failed) => global_state' = global_state

\* C32: a change of the shared state made under the lock by a handler stays
\* after a later handler of the same dispatch returns an error or after the
\* dispatch is abandoned in the middle of its chain: the counter always
\* holds every committed increment, and the failing step does not touch it.
C32_NoRollback == []CommittedPersists /\ [][FailureKeepsState]_vars

\* one dispatch incremented and then failed with the error of its next
\* handler, another incremented and was abandoned before its next handler,
\* and the counter holds both increments
C32_Witness ==
    \E d, e \in DOMAIN disp :
        /\ d # e
        /\ Done(d) /\ d \in Incremented
        /\ disp[d].router_result = Some(Err(ErrorDefault))
        /\ disp[e].pc = "abandoned" /\ e \in Incremented
        /\ Unwrap(global_state).value = InitialState + 2


\* the dispatch ended with a response
Responded(d) == Done(d) /\ IsSome(disp[d].result)

\* C33: with handlers that hold the lock of the shared state only inside a
\* critical section they leave, and a fair executor, each of the MaxDispatch
\* concurrent dispatches that waits for the lock gets it, and each of them
\* ends with a response and stays ended.
C33_EveryDispatchCompletes ==
    /\ \A d \in DispatchIds : (disp[d].pc = "lock") ~> (disp[d].pc = "read")
    /\ \A d \in DispatchIds : <>[]Responded(d)

\* all the concurrent dispatches went through the critical section and
\* ended with the response of their chain
C33_Witness ==
    /\ IsSome(global_state)
    /\ LockFree(Unwrap(global_state))
    /\ \A d \in DispatchIds :
          /\ Responded(d)
          /\ d \in Incremented
          /\ Unwrap(disp[d].router_result).ok


\* the positions of the parts of a path that are Param(name)
OccurrencesOf(self, name) ==
    {i \in 1..Len(self) : self[i] = Param(name)}

Max(S) == CHOOSE x \in S : \A y \in S : y <= x

\* the number of entries of params() that are name
CountIn(seq, name) == Cardinality({j \in 1..Len(seq) : seq[j] = name})

\* C34: params() lists a parameter name once for each part that declares
\* it, and a successful extract has one entry for the name, whose value is
\* the candidate piece at the last part that declares it.
C34_DuplicateNamesLastWins ==
    \A name \in ToSet(PathParams(path)) :
        /\ CountIn(PathParams(path), name) = Cardinality(OccurrencesOf(path, name))
        /\ (op = "extract" /\ Unwrap(extracted).ok) =>
              /\ name \in DOMAIN Unwrap(extracted).val
              /\ Unwrap(extracted).val[name] =
                     ExtractPieces(provided)[Max(OccurrencesOf(path, name))]

\* /:x/:x against /a/b: params() is [x, x] and extract gives {x: b}
C34_Witness ==
    /\ op = "extract"
    /\ pattern = <<"/", ":", "x", "/", ":", "x">>
    /\ provided = <<"/", "a", "/", "b">>
    /\ PathParams(path) = <<<<"x">>, <<"x">>>>
    /\ extracted = Some(Ok([k \in {<<"x">>} |-> <<"b">>]))


\* a pattern in normal form: a leading slash, no empty segment, no trailing
\* slash; the root pattern / is its own normal form
NormalForm(p) == p = Slash \/ NormalCandidate(p)

\* the canonical string is the parts' strings joined with slashes, or / for
\* a path of fewer than two parts
RendersParts ==
    IsSome(canonical) =>
        IF Len(path) < 2
        THEN Unwrap(canonical) = Slash
        ELSE Split(Unwrap(canonical), "/") =
                 [i \in 1..Len(path) |-> PartToString(path[i])]

\* C35: the canonical string of a compiled path is its parts joined with
\* slashes (/ for the Leader alone); for every pattern in normal form it is
\* the pattern itself, and recompiling it gives the same parts again.
C35_CanonicalStringRoundTrip ==
    /\ RendersParts
    /\ (IsSome(canonical) /\ NormalForm(pattern)) => Unwrap(canonical) = pattern
    /\ IsSome(recompiled) => Unwrap(recompiled) = path


\* the parameter names a pattern declares, from left to right: its segments
\* that begin with a colon, without their leading colons
DeclaredParams(p) ==
    Only({[i \in 1..Len(segs) |-> TrimStartMatches(segs[i], ":")]
            : segs \in {SelectSeq(Segments(p), IsParamSegment)}})

\* the pattern still has a slash once its trailing slashes are trimmed
HasSlash(p) == Contains(TrimEndMatches(p, "/"), "/")

\* C36 as stated: for every pattern, params() of the compiled path is the
\* list of the names of the pattern's segments prefixed by a colon, in the
\* order of the pattern (the empty list for a literal pattern).
C36_ParamsAsDeclared ==
    op = "params" => Unwrap(listed) = DeclaredParams(pattern)

\* C36 amended: for every pattern that still has a slash once its trailing
\* slashes are trimmed, params() of the compiled path is the list of the
\* names of the pattern's segments prefixed by a colon, in the order of the
\* pattern; a pattern without such a segment has an empty params().
C36_ParamsAsDeclaredWithSlash ==
    (op = "params" /\ HasSlash(pattern)) =>
        /\ Unwrap(listed) = DeclaredParams(pattern)
        /\ Len(Unwrap(listed)) = Len(SelectSeq(Segments(pattern), IsParamSegment))
        /\ IsLiteralPattern(pattern) => Unwrap(listed) = <<>>

\* /a/:x/:y/b has the params x, y in this order
C36_Witness ==
    /\ op = "params"
    /\ pattern = ExamplePattern
    /\ HasSlash(pattern)
    /\ listed = Some(<<<<"x">>, <<"y">>>>)


\* the routes of the table registered under the pattern without a slash
NoSlashRoutes ==
    {i \in 1..Len(router) : router[i].handler = ComposeHandler(NoSlashFuncs)}

\* what the chain registered under the pattern without a slash answers
NoSlashResponse == Response(BAD_REQUEST, Body("hello, world", <<>>))

\* C37: a pattern or candidate without a slash once its trailing slashes are
\* trimmed compiles to the path of the one part Leader: the candidate abc
\* matches exactly the paths the root does, the root pattern among them; a
\* route registered under the pattern abc has the root path, a request for /
\* runs its chain, and a request for /abc never does.
C37_NoSlashIsRoot ==
    /\ ~HasSlash(pattern) => path = <<Leader>>
    /\ (op = "matches" /\ ~HasSlash(provided)) =>
          /\ matched <=> PathEq(path, <<Leader>>)
          /\ pattern = PatRoot => matched
    /\ \A i \in NoSlashRoutes : router[i].path = <<Leader>>
    /\ \A d \in DOMAIN disp :
          (Done(d) /\ NoSlashRoutes # {}) =>
              /\ Unwrap(disp[d].request) = Request(GET, UriRoot, <<>>) =>
                    /\ disp[d].route = Min(NoSlashRoutes)
                    /\ CalledFuncs(disp[d]) = NoSlashFuncs
                    /\ disp[d].result = Some(NoSlashResponse)
              /\ Unwrap(disp[d].request).uri = UriAbc =>
                    disp[d].route \notin NoSlashRoutes

\* the pattern abc is registered and a request for / ran its chain, and the
\* candidate abc matched the root pattern /
C37_Witness ==
    /\ router # <<>>
    /\ router[1] = RouteNew(GET, PatNoSlash, ComposeHandler(NoSlashFuncs))
    /\ Done(1)
    /\ Unwrap(disp[1].request) = Request(GET, UriRoot, <<>>)
    /\ disp[1].route = 1
    /\ disp[1].result = Some(NoSlashResponse)
    /\ op = "matches"
    /\ pattern = PatRoot
    /\ provided = PatNoSlash
    /\ matched

=============================================================================
